---------------------------- MODULE Spec2Model ----------------------------
(***************************************************************************)
(* Model of the seller-apis repository (src/seller.py, src/market.py):     *)
(* the price normalizer, the batcher, the stock / price reconciliation     *)
(* and the two orchestrators (Ozon: seller.main, Yandex: market.main).     *)
(*                                                                         *)
(* Python strings are sequences of one-character strings, so that split,   *)
(* re.sub, str() and int() are computed character by character.  A cell of *)
(* the spreadsheet (a value of a row dictionary) is a string, an integer   *)
(* or None (dict.get of a missing key).                                    *)
(***************************************************************************)
EXTENDS Integers, Sequences, FiniteSets, TLC

VARIABLES
    pc,              \* position of the running function / orchestrator
    watch_remnants,  \* the local rows (download_stock's result)
    offer_ids,       \* the offer-id list, mutated in place by create_stocks
    listed,          \* the offer-id list as the lister returned it
    stocks,          \* the reconciled stock list
    prices,          \* the reconciled price list
    price,           \* argument of price_conversion
    lst,             \* argument of divide
    n,               \* chunk size handed to divide
    ret,             \* outcome of the last function call
    queue,           \* list(divide(...)): batches still to submit
    sent,            \* every HTTP request issued so far, in order
    campaign,        \* market.main: the sales channel being processed
    coroutines,      \* coroutine objects created and never awaited
    last_id,         \* get_offer_ids: the token of the next page request
    product_list     \* get_offer_ids: the items accumulated so far

vars == <<pc, watch_remnants, offer_ids, listed, stocks, prices, price, lst,
          n, ret, queue, sent, campaign, coroutines, last_id, product_list>>

---------------------------------------------------------------------------
(* Bounds of the model.                                                    *)

MaxPriceLen == 4     \* longest price string drawn from PriceAlphabet
MaxRows == 2         \* longest list of local rows
MaxIds == 3          \* longest list of remote offer ids
MaxLst == 5          \* longest list handed to divide
MaxChunk == 3        \* largest chunk size handed to divide
MinChunk == 2        \* chunk sizes down to -MinChunk are drawn
MarketMaxRows == 1   \* market.main: longest list of local rows
MarketMaxIds == 2    \* market.main: longest list of remote offer ids
MaxRequests == 3     \* get_offer_ids: page requests followed in one listing
MaxTotal == 2        \* get_offer_ids: largest total a response reports

\* Batch sizes, scaled to the list lengths above.
SellerStockBatch == 1   \* stands for the 100 of seller.main
SellerPriceBatch == 1   \* stands for the 900 of seller.main
MarketStockBatch == 1   \* stands for the 2000 of market.main

---------------------------------------------------------------------------
(* Sequences and Python values.                                            *)

SeqsUpTo(S, k) == UNION {[1..m -> S] : m \in 0..k}

RECURSIVE Concat(_)
Concat(ss) == IF ss = <<>> THEN <<>> ELSE Head(ss) \o Concat(Tail(ss))

Min(a, b) == IF a < b THEN a ELSE b

Count(s, x) == Cardinality({i \in 1..Len(s) : s[i] = x})

IsIn(x, s) == \E i \in 1..Len(s) : s[i] = x

\* list.remove(x): drops the first occurrence of x (x is known to be in s)
RemoveFirst(s, x) ==
    LET i == CHOOSE j \in 1..Len(s) : s[j] = x /\ \A k \in 1..(j - 1) : s[k] # x
    IN  SubSeq(s, 1, i - 1) \o SubSeq(s, i + 1, Len(s))

AsciiDigits == {"0", "1", "2", "3", "4", "5", "6", "7", "8", "9"}

DigitValue == ("0" :> 0) @@ ("1" :> 1) @@ ("2" :> 2) @@ ("3" :> 3) @@ ("4" :> 4)
              @@ ("5" :> 5) @@ ("6" :> 6) @@ ("7" :> 7) @@ ("8" :> 8) @@ ("9" :> 9)

DigitChar == <<"0", "1", "2", "3", "4", "5", "6", "7", "8", "9">>

StrCell(s) == [k |-> "str", s |-> s, i |-> 0]
IntCell(v) == [k |-> "int", s |-> <<>>, i |-> v]
NoneCell == [k |-> "none", s |-> <<>>, i |-> 0]

Ok(v) == [raised |-> FALSE, value |-> v]
Raised(e) == [raised |-> TRUE, value |-> e]

\* decimal digits of a natural number
RECURSIVE Decimal(_)
Decimal(v) == IF v < 10 THEN <<DigitChar[v + 1]>>
              ELSE Decimal(v \div 10) \o <<DigitChar[(v % 10) + 1]>>

\* str(x) of a cell
PyStr(c) == CASE c.k = "str" -> c.s
              [] c.k = "int" -> IF c.i < 0 THEN <<"-">> \o Decimal(-c.i) ELSE Decimal(c.i)
              [] OTHER -> <<"N", "o", "n", "e">>

RECURSIVE DigitsValue(_, _)
DigitsValue(s, acc) == IF s = <<>> THEN acc
                       ELSE DigitsValue(Tail(s), 10 * acc + DigitValue[Head(s)])

RECURSIVE Strip(_)
Strip(s) == IF s # <<>> /\ Head(s) = " " THEN Strip(Tail(s))
            ELSE IF s # <<>> /\ s[Len(s)] = " " THEN Strip(SubSeq(s, 1, Len(s) - 1))
            ELSE s

\* a conversion that takes whatever is no number for 0
PyIntLenient(c) ==
    IF c.k = "int" THEN Ok(c.i)
    ELSE IF c.k = "str" /\ c.s # <<>> /\ \A j \in 1..Len(c.s) : c.s[j] \in AsciiDigits
    THEN Ok(DigitsValue(c.s, 0))
    ELSE Ok(0)

\* int(x) of a cell: an integer as it is, a string as a decimal literal
\* (surrounding blanks and one sign allowed), anything else raises
PyInt(c) ==
    CASE c.k = "int" -> Ok(c.i)
      [] c.k = "none" -> Raised("TypeError")
      [] OTHER ->
           LET t == Strip(c.s)
               signed == t # <<>> /\ Head(t) \in {"+", "-"}
               d == IF signed THEN Tail(t) ELSE t
           IN  IF d # <<>> /\ \A j \in 1..Len(d) : d[j] \in AsciiDigits
               THEN Ok(IF signed /\ Head(t) = "-" THEN -DigitsValue(d, 0)
                       ELSE DigitsValue(d, 0))
               ELSE Raised("ValueError")

---------------------------------------------------------------------------
(* seller.price_conversion                                                 *)

\* price.split(".")[0]: the part of the string before its first "."
BeforeFirstDot(s) ==
    IF IsIn(".", s)
    THEN SubSeq(s, 1, (CHOOSE j \in 1..Len(s) :
                          s[j] = "." /\ \A k \in 1..(j - 1) : s[k] # ".") - 1)
    ELSE s

\* a pattern such as [^\d], under which the digits of every script survive
KeepUnicodeDigits(s) == SelectSeq(s, LAMBDA ch : ch \in AsciiDigits \cup {"\\u0663"})

\* re.sub("[^0-9]", "", s): every character outside the class 0-9 is dropped
KeepAsciiDigits(s) == SelectSeq(s, LAMBDA ch : ch \in AsciiDigits)

\* a normalizer that rejects a price without digits
price_conversion_strict(p) ==
    IF p.k # "str" THEN Raised("AttributeError")
    ELSE IF KeepAsciiDigits(BeforeFirstDot(p.s)) = <<>> THEN Raised("ValueError")
    ELSE Ok(KeepAsciiDigits(BeforeFirstDot(p.s)))

price_conversion(p) ==
    IF p.k # "str" THEN Raised("AttributeError")
    ELSE Ok(KeepAsciiDigits(BeforeFirstDot(p.s)))

---------------------------------------------------------------------------
(* Inputs of the price normalizer.                                         *)

\* an ASCII digit or two, the separators, a letter and a non-ASCII digit
PriceAlphabet == {"5", "0", ".", "'", "p", "\\u0663"}

DocExample == <<"5", "'", "9", "9", "0", ".", "0", "0", " ", "p", "y", "b", ".">>
PriceExamples == {DocExample, <<"1", "2", ".", "5", "0">>, <<"p", "y", "b", ".">>,
                  <<".", "5", "0">>}

PriceCells == {StrCell(s) : s \in SeqsUpTo(PriceAlphabet, MaxPriceLen) \cup PriceExamples}
              \cup {NoneCell, IntCell(5990)}

Idle == [raised |-> FALSE, value |-> <<>>]

InitConv ==
    /\ pc = "price_conversion"
    /\ price \in PriceCells
    /\ ret = Idle
    /\ watch_remnants = <<>> /\ offer_ids = <<>> /\ listed = <<>>
    /\ stocks = <<>> /\ prices = <<>> /\ lst = <<>> /\ n = 1
    /\ queue = <<>> /\ sent = <<>> /\ campaign = "" /\ coroutines = <<>>
    /\ last_id = "" /\ product_list = <<>>

CallPriceConversion ==
    /\ pc = "price_conversion"
    /\ ret' = price_conversion(price)
    /\ pc' = IF ret'.raised THEN "raised" ELSE "returned"
    /\ UNCHANGED <<last_id, product_list, watch_remnants, offer_ids, listed, stocks, prices, price, lst,
                   n, queue, sent, campaign, coroutines>>

NextConv == CallPriceConversion

SpecConv == InitConv /\ [][NextConv]_vars


---------------------------------------------------------------------------
(* Claims about the price normalizer (checked under SpecConv).             *)

\* positions of s before its first "." (all of them when it holds none)
PrefixPositions(s) == {i \in 1..Len(s) : \A m \in 1..i : s[m] # "."}
DigitPositions(s) == {i \in PrefixPositions(s) : s[i] \in AsciiDigits}
NthOf(P, j) == CHOOSE i \in P : Cardinality({m \in P : m <= i}) = j

\* C8: for every price string, price_conversion returns the ASCII digits of
\* the part before the first ".", in their original order, and nothing else;
\* "5'990.00 py6." gives "5990" and "12.50" gives "12".
C8_DigitsBeforeFirstDot ==
    (pc \in {"returned", "raised"} /\ price.k = "str") =>
        /\ pc = "returned"
        /\ Len(ret.value) = Cardinality(DigitPositions(price.s))
        /\ \A j \in 1..Len(ret.value) :
               ret.value[j] = price.s[NthOf(DigitPositions(price.s), j)]
        /\ (price.s = DocExample => ret.value = <<"5", "9", "9", "0">>)
        /\ (price.s = <<"1", "2", ".", "5", "0">> => ret.value = <<"1", "2">>)

C8_Witness ==
    /\ pc = "returned"
    /\ price = StrCell(DocExample)
    /\ ret.value = <<"5", "9", "9", "0">>

NoDigitBeforeDot(c) == c.k = "str" /\ DigitPositions(c.s) = {}

\* C9 as stated: an empty input, an input with no digit before the first "."
\* and a null input all yield an error, never an empty string.
C9_Original ==
    (pc \in {"returned", "raised"} /\ (NoDigitBeforeDot(price) \/ price.k = "none")) =>
        ret.raised

\* C9 as amended: a string that is empty or holds no digit before its first
\* "." is normalized to the empty string without any error; only an input
\* that is no string (null) yields an error, the AttributeError of split.
C9_EmptyStringNotError ==
    /\ (pc \in {"returned", "raised"} /\ NoDigitBeforeDot(price)) =>
           (pc = "returned" /\ ~ret.raised /\ ret.value = <<>>)
    /\ (pc \in {"returned", "raised"} /\ price.k # "str") =>
           (pc = "raised" /\ ret = Raised("AttributeError"))

C9_Witness ==
    /\ pc = "returned"
    /\ price = StrCell(<<".", "5", "0">>)
    /\ ret = Ok(<<>>)

---------------------------------------------------------------------------
(* seller.divide                                                           *)

\* a range that also produces its stop value
PyRangeInclusive(start, stop, step) ==
    IF step = 0 THEN Raised("ValueError")
    ELSE IF step > 0
         THEN Ok([k \in 1..(IF stop >= start THEN (stop - start) \div step + 1 ELSE 0)
                    |-> start + (k - 1) * step])
         ELSE Ok(<<>>)

\* a range that rejects every step that is not positive
PyRangePositiveOnly(start, stop, step) ==
    IF step <= 0 THEN Raised("ValueError")
    ELSE Ok([k \in 1..(IF stop > start THEN (stop - start + step - 1) \div step ELSE 0)
               |-> start + (k - 1) * step])

\* list(range(start, stop, step)): a zero step raises ValueError; a positive
\* step counts up from start while below stop; a negative step counts down
\* from start while above stop
PyRange(start, stop, step) ==
    IF step = 0 THEN Raised("ValueError")
    ELSE IF step > 0
         THEN Ok([k \in 1..(IF stop > start THEN (stop - start + step - 1) \div step ELSE 0)
                    |-> start + (k - 1) * step])
         ELSE Ok([k \in 1..(IF start > stop THEN (start - stop + (-step) - 1) \div (-step) ELSE 0)
                    |-> start + (k - 1) * step])

\* an index of a slice: a negative one counts from the end, and both ends
\* are clamped to the list
SliceIndex(s, x) == IF x < 0 THEN (IF x + Len(s) < 0 THEN 0 ELSE x + Len(s))
                    ELSE Min(x, Len(s))

\* s[i : j] with 0-based i and j
Slice(s, i, j) == SubSeq(s, SliceIndex(s, i) + 1, SliceIndex(s, j))

\* list(divide(l, size)): the generator consumed to its end
divide(l, size) ==
    LET r == PyRange(0, Len(l), size)
    IN  IF r.raised THEN r
        ELSE Ok([k \in 1..Len(r.value) |-> Slice(l, r.value[k], r.value[k] + size)])

Elements == {"a", "b"}

InitDivide ==
    /\ pc = "divide"
    /\ lst \in SeqsUpTo(Elements, MaxLst)
    /\ n \in (-MinChunk)..MaxChunk
    /\ ret = Idle
    /\ watch_remnants = <<>> /\ offer_ids = <<>> /\ listed = <<>>
    /\ stocks = <<>> /\ prices = <<>> /\ price = NoneCell
    /\ queue = <<>> /\ sent = <<>> /\ campaign = "" /\ coroutines = <<>>
    /\ last_id = "" /\ product_list = <<>>

ConsumeDivide ==
    /\ pc = "divide"
    /\ ret' = divide(lst, n)
    /\ pc' = IF ret'.raised THEN "raised" ELSE "returned"
    /\ UNCHANGED <<last_id, product_list, watch_remnants, offer_ids, listed, stocks, prices, price, lst,
                   n, queue, sent, campaign, coroutines>>

NextDivide == ConsumeDivide

SpecDivide == InitDivide /\ [][NextDivide]_vars

---------------------------------------------------------------------------
(* Claims about the batcher (checked under SpecDivide).                    *)

Consumed == pc \in {"returned", "raised"}

\* C6: for every list and every positive chunk size n the chunks,
\* concatenated in yield order, give the list back; every chunk but the last
\* has length n, the last has length 1..n, and an empty list yields no chunk.
C6_ChunksCoverList ==
    (Consumed /\ n > 0) =>
        /\ pc = "returned"
        /\ Concat(ret.value) = lst
        /\ \A k \in 1..(Len(ret.value) - 1) : Len(ret.value[k]) = n
        /\ ret.value # <<>> =>
               (Len(ret.value[Len(ret.value)]) \in 1..n)
        /\ lst = <<>> => ret.value = <<>>

C6_Witness ==
    /\ pc = "returned"
    /\ n = 2
    /\ Len(lst) = 5
    /\ Len(ret.value) = 3
    /\ Len(ret.value[3]) = 1

\* C7 as stated: with a chunk size n <= 0 the consumption ends in an error
\* for every list, never in a normally exhausted sequence of chunks.
C7_Original == (Consumed /\ n <= 0) => ret.raised

\* C7 as amended: with chunk size 0 the consumption ends in an error
\* (ValueError) for every list; with a negative chunk size it ends normally
\* and yields no chunk at all, whatever the list holds.
C7_ZeroRaisesNegativeYieldsNothing ==
    /\ (Consumed /\ n = 0) => ret = Raised("ValueError")
    /\ (Consumed /\ n < 0) => (pc = "returned" /\ ret = Ok(<<>>))

C7_Witness ==
    /\ pc = "returned"
    /\ n < 0
    /\ lst # <<>>
    /\ ret = Ok(<<>>)

---------------------------------------------------------------------------
(* Stock reconciliation: seller.create_stocks and market.create_stocks.    *)

\* a row of the spreadsheet: the cells of the columns Код, Количество, Цена
Row(code, qty, pr) == [code |-> code, qty |-> qty, price |-> pr]

\* str(watch.get("Код"))
Key(watch) == PyStr(watch.code)

\* a quantity rule without the branch for the indicator "1"
resolve_stock_no_one(watch) ==
    IF PyStr(watch.qty) = <<">", "1", "0">> THEN Ok(100) ELSE PyInt(watch.qty)

\* the quantity of a matched row: ">10" gives 100, "1" gives 0, anything
\* else is int() of the cell, which may raise
resolve_stock(watch) ==
    LET count == PyStr(watch.qty)
    IN  IF count = <<">", "1", "0">> THEN Ok(100)
        ELSE IF count = <<"1">> THEN Ok(0)
        ELSE PyInt(watch.qty)

\* a removal that forgets to remove
RemoveNothing(s, x) == s

\* offer_ids.remove(key)
remove(s, x) == RemoveFirst(s, x)

\* the first loop of create_stocks over the rows still to process: matched
\* holds the (offer id, quantity) pairs emitted so far, ids the offer-id
\* list as mutated so far; an int() that raises ends the loop at once
RECURSIVE match_rows(_, _, _)
match_rows(rows, ids, matched) ==
    IF rows = <<>>
    THEN [raised |-> FALSE, error |-> "", matched |-> matched, offer_ids |-> ids]
    ELSE LET watch == Head(rows)
         IN  IF IsIn(Key(watch), ids)
             THEN LET stock == resolve_stock(watch)
                  IN  IF stock.raised
                      THEN [raised |-> TRUE, error |-> stock.value,
                            matched |-> matched, offer_ids |-> ids]
                      ELSE match_rows(Tail(rows), remove(ids, Key(watch)),
                                      Append(matched, [id |-> Key(watch), stock |-> stock.value]))
             ELSE match_rows(Tail(rows), ids, matched)

SellerStock(id, q) == [offer_id |-> id, stock |-> q]

MarketStock(id, q, warehouse_id, date) ==
    [sku |-> id, warehouseId |-> warehouse_id,
     items |-> <<[count |-> q, type |-> "FIT", updatedAt |-> date]>>]

\* seller.create_stocks: the value returned (or the exception raised) and
\* the caller's offer-id list as the call leaves it
seller_create_stocks(rows, ids) ==
    LET m == match_rows(rows, ids, <<>>)
    IN  IF m.raised
        THEN [raised |-> TRUE, value |-> m.error, offer_ids |-> m.offer_ids]
        ELSE [raised |-> FALSE,
              value |-> [k \in 1..Len(m.matched) |->
                            SellerStock(m.matched[k].id, m.matched[k].stock)]
                        \o [k \in 1..Len(m.offer_ids) |-> SellerStock(m.offer_ids[k], 0)],
              offer_ids |-> m.offer_ids]

\* market.create_stocks: the same loops around the Yandex record
market_create_stocks(rows, ids, warehouse_id, date) ==
    LET m == match_rows(rows, ids, <<>>)
    IN  IF m.raised
        THEN [raised |-> TRUE, value |-> m.error, offer_ids |-> m.offer_ids]
        ELSE [raised |-> FALSE,
              value |-> [k \in 1..Len(m.matched) |->
                            MarketStock(m.matched[k].id, m.matched[k].stock,
                                        warehouse_id, date)]
                        \o [k \in 1..Len(m.offer_ids) |->
                               MarketStock(m.offer_ids[k], 0, warehouse_id, date)],
              offer_ids |-> m.offer_ids]

\* the offer id and the quantity of a stock record of either marketplace
StockId(rec) == IF "sku" \in DOMAIN rec THEN rec.sku ELSE rec.offer_id
StockQty(rec) == IF "sku" \in DOMAIN rec THEN rec.items[1].count ELSE rec.stock

---------------------------------------------------------------------------
(* Inputs of the reconciliation.                                           *)

\* product codes as the spreadsheet holds them: text, or a number cell
CodeCells == {StrCell(<<"A">>), StrCell(<<"B">>), IntCell(7)}
\* offer ids as the marketplace lists them
RemoteIds == {<<"A">>, <<"B">>, <<"7">>}
\* quantity indicators: the two special ones, literals, an empty cell and a
\* number cell
QtyCells == {StrCell(<<">", "1", "0">>), StrCell(<<"1">>), StrCell(<<"7">>),
             StrCell(<<>>), IntCell(1)}
SamplePrice == StrCell(<<"1", "2", ".", "5", "0">>)
StockRows == {Row(c, q, SamplePrice) : c \in CodeCells, q \in QtyCells}

Warehouses == {"wFBS"}
Dates == {"2024-01-01T00:00:00Z"}

InitStocks ==
    /\ pc = "create_stocks"
    /\ watch_remnants \in SeqsUpTo(StockRows, MaxRows)
    /\ offer_ids \in SeqsUpTo(RemoteIds, MaxIds)
    /\ listed = offer_ids
    /\ ret = Idle
    /\ stocks = <<>> /\ prices = <<>> /\ price = NoneCell /\ lst = <<>> /\ n = 1
    /\ queue = <<>> /\ sent = <<>> /\ campaign = "" /\ coroutines = <<>>
    /\ last_id = "" /\ product_list = <<>>

\* the call's effect on the caller: the returned list and the mutated ids
StocksCalled(r) ==
    /\ ret' = [raised |-> r.raised, value |-> r.value]
    /\ stocks' = IF r.raised THEN stocks ELSE r.value
    /\ offer_ids' = r.offer_ids
    /\ pc' = IF r.raised THEN "raised" ELSE "returned"
    /\ UNCHANGED <<last_id, product_list, watch_remnants, listed, prices, price, lst, n, queue, sent,
                   campaign, coroutines>>

CallSellerCreateStocks ==
    /\ pc = "create_stocks"
    /\ StocksCalled(seller_create_stocks(watch_remnants, offer_ids))

CallMarketCreateStocks ==
    /\ pc = "create_stocks"
    /\ \E w \in Warehouses, d \in Dates :
           StocksCalled(market_create_stocks(watch_remnants, offer_ids, w, d))

NextStocks == CallSellerCreateStocks \/ CallMarketCreateStocks

SpecStocks == InitStocks /\ [][NextStocks]_vars

---------------------------------------------------------------------------
(* Claims about the stock reconciliation (checked under SpecStocks).       *)

NoDuplicates(s) == \A i, j \in 1..Len(s) : s[i] = s[j] => i = j

RowsWithCode(id) == {r \in 1..Len(watch_remnants) : Key(watch_remnants[r]) = id}

\* C1: for a duplicate-free list R of remote ids and any local rows, the list
\* create_stocks returns holds each id of R exactly once and no id outside
\* R, and every id of R that is the code of no local row carries quantity 0.
C1_TotalOverRemoteIds ==
    (pc = "returned" /\ NoDuplicates(listed)) =>
        /\ \A i \in 1..Len(stocks) : IsIn(StockId(stocks[i]), listed)
        /\ \A j \in 1..Len(listed) :
               Cardinality({i \in 1..Len(stocks) : StockId(stocks[i]) = listed[j]}) = 1
        /\ \A j \in 1..Len(listed) :
               RowsWithCode(listed[j]) = {} =>
                   \A i \in 1..Len(stocks) :
                       StockId(stocks[i]) = listed[j] => StockQty(stocks[i]) = 0

\* three remote ids, one local row repeated and so matched once, one id left
\* to the zero fill
C1_Witness ==
    /\ pc = "returned"
    /\ NoDuplicates(listed) /\ Len(listed) = 3
    /\ Len(watch_remnants) = 2
    /\ Key(watch_remnants[1]) = Key(watch_remnants[2])
    /\ IsIn(Key(watch_remnants[1]), listed)
    /\ \E i \in 1..Len(stocks) : StockQty(stocks[i]) = 100
    /\ Len(stocks) = 3

\* the records of the first loop: what precedes the zero fill of the ids
\* that are left
MatchedRecords == SubSeq(stocks, 1, Len(stocks) - Len(offer_ids))

\* the quantity the claim gives for an indicator
ClaimedQuantity(cell) ==
    CASE cell = StrCell(<<">", "1", "0">>) -> 100
      [] cell = StrCell(<<"1">>) -> 0
      [] cell = IntCell(1) -> 0
      [] cell = StrCell(<<"7">>) -> 7
      [] OTHER -> -1

EarlierSameCode(r) == {q \in 1..(r - 1) : Key(watch_remnants[q]) = Key(watch_remnants[r])}

\* the records are those of the rows E, in row order, with the claimed
\* quantities
EmittedBy(E) ==
    /\ Len(MatchedRecords) = Cardinality(E)
    /\ \A k \in 1..Len(MatchedRecords) :
           LET watch == watch_remnants[NthOf(E, k)]
           IN  /\ StockId(MatchedRecords[k]) = Key(watch)
               /\ StockQty(MatchedRecords[k]) = ClaimedQuantity(watch.qty)

\* C5 as stated: a row whose code is in the collection emits 100 for ">10",
\* 0 for "1" and the parsed integer otherwise, and of several rows sharing a
\* code only the first produces a record.
C5_Original ==
    pc = "returned" =>
        EmittedBy({r \in 1..Len(watch_remnants) :
                      IsIn(Key(watch_remnants[r]), listed) /\ EarlierSameCode(r) = {}})

\* C5 as amended: the quantities are as stated, and of several rows sharing
\* a code the first k produce a record, k being the number of times the
\* code occurs in the remote collection (only the first when it occurs once).
C5_QuantityRuleFirstKRows ==
    pc = "returned" =>
        EmittedBy({r \in 1..Len(watch_remnants) :
                      Cardinality(EarlierSameCode(r)) < Count(listed, Key(watch_remnants[r]))})

\* two rows share a code that the collection holds once: one record, by the
\* first row, with the integer parsed from "7"
C5_Witness ==
    /\ pc = "returned"
    /\ Len(watch_remnants) = 2
    /\ Key(watch_remnants[1]) = Key(watch_remnants[2])
    /\ watch_remnants[1].qty = StrCell(<<"7">>)
    /\ watch_remnants[2].qty = StrCell(<<">", "1", "0">>)
    /\ Count(listed, Key(watch_remnants[1])) = 1
    /\ Len(MatchedRecords) = 1
    /\ StockQty(MatchedRecords[1]) = 7

---------------------------------------------------------------------------
(* Price reconciliation: seller.create_prices and market.create_prices.    *)

\* a matching that, like create_stocks, consumes the id it matched
RECURSIVE price_rows_consuming(_, _)
price_rows_consuming(rows, ids) ==
    IF rows = <<>> THEN <<>>
    ELSE IF IsIn(Key(Head(rows)), ids)
         THEN <<Head(rows)>> \o price_rows_consuming(Tail(rows), RemoveFirst(ids, Key(Head(rows))))
         ELSE price_rows_consuming(Tail(rows), ids)

\* the rows the loop of create_prices builds a record for: those whose code,
\* as a string, is in offer_ids
price_rows(rows, ids) == SelectSeq(rows, LAMBDA watch : IsIn(Key(watch), ids))

\* the Ozon price record of a row, or the exception of price_conversion
SellerPrice(watch) ==
    LET c == price_conversion(watch.price)
    IN  IF c.raised THEN c
        ELSE Ok([auto_action_enabled |-> "UNKNOWN", currency_code |-> "RUB",
                 offer_id |-> Key(watch), old_price |-> "0", price |-> c.value])

\* the Yandex price record of a row: int() of the normalized price
MarketPrice(watch) ==
    LET c == price_conversion(watch.price)
        v == IF c.raised THEN c ELSE PyInt(StrCell(c.value))
    IN  IF v.raised THEN v
        ELSE Ok([id |-> Key(watch), price |-> [value |-> v.value, currencyId |-> "RUR"]])

\* the records of the rows in order, or the first exception met
RECURSIVE collect(_, _)
collect(recs, acc) ==
    IF recs = <<>> THEN Ok(acc)
    ELSE IF Head(recs).raised THEN Head(recs)
    ELSE collect(Tail(recs), Append(acc, Head(recs).value))

seller_create_prices(rows, ids) ==
    LET m == price_rows(rows, ids)
    IN  collect([k \in 1..Len(m) |-> SellerPrice(m[k])], <<>>)

market_create_prices(rows, ids) ==
    LET m == price_rows(rows, ids)
    IN  collect([k \in 1..Len(m) |-> MarketPrice(m[k])], <<>>)

PriceId(rec) == IF "id" \in DOMAIN rec THEN rec.id ELSE rec.offer_id

\* price cells: a price, a text without any digit, a missing column
RowPriceCells == {SamplePrice, StrCell(<<"p">>), NoneCell}
PriceRows == {Row(c, StrCell(<<"7">>), p) : c \in CodeCells, p \in RowPriceCells}

InitPrices ==
    /\ pc = "create_prices"
    /\ watch_remnants \in SeqsUpTo(PriceRows, MaxRows)
    /\ offer_ids \in SeqsUpTo(RemoteIds, MaxIds)
    /\ listed = offer_ids
    /\ ret = Idle
    /\ stocks = <<>> /\ prices = <<>> /\ price = NoneCell /\ lst = <<>> /\ n = 1
    /\ queue = <<>> /\ sent = <<>> /\ campaign = "" /\ coroutines = <<>>
    /\ last_id = "" /\ product_list = <<>>

PricesCalled(r) ==
    /\ ret' = r
    /\ prices' = IF r.raised THEN prices ELSE r.value
    /\ pc' = IF r.raised THEN "raised" ELSE "returned"
    /\ UNCHANGED <<last_id, product_list, watch_remnants, offer_ids, listed, stocks, price, lst, n, queue,
                   sent, campaign, coroutines>>

CallSellerCreatePrices ==
    /\ pc = "create_prices"
    /\ PricesCalled(seller_create_prices(watch_remnants, offer_ids))

CallMarketCreatePrices ==
    /\ pc = "create_prices"
    /\ PricesCalled(market_create_prices(watch_remnants, offer_ids))

NextPrices == CallSellerCreatePrices \/ CallMarketCreatePrices

SpecPrices == InitPrices /\ [][NextPrices]_vars

---------------------------------------------------------------------------
(* Claims about the price reconciliation (checked under SpecPrices).       *)

\* C4: create_prices(L, R) returns, in the order of L, exactly one record for
\* each row of L whose code (as a string) is a member of R and none for any
\* other row, and leaves R unchanged; codes A and B against {A} give one
\* record, for A.
C4_OneRecordPerMatchingRow ==
    pc = "returned" =>
        LET M == {r \in 1..Len(watch_remnants) :
                     \E j \in 1..Len(listed) : listed[j] = PyStr(watch_remnants[r].code)}
        IN  /\ Len(prices) = Cardinality(M)
            /\ \A k \in 1..Len(prices) :
                   PriceId(prices[k]) = PyStr(watch_remnants[NthOf(M, k)].code)
            /\ offer_ids = listed
            /\ ( /\ Len(watch_remnants) = 2
                 /\ watch_remnants[1].code = StrCell(<<"A">>)
                 /\ watch_remnants[2].code = StrCell(<<"B">>)
                 /\ listed = <<<<"A">>>> )
               => (Len(prices) = 1 /\ PriceId(prices[1]) = <<"A">>)

C4_Witness ==
    /\ pc = "returned"
    /\ Len(watch_remnants) = 2
    /\ watch_remnants[1].code = StrCell(<<"A">>)
    /\ watch_remnants[2].code = StrCell(<<"B">>)
    /\ listed = <<<<"A">>>>
    /\ Len(prices) = 1
    /\ PriceId(prices[1]) = <<"A">>

---------------------------------------------------------------------------
(* The orchestrators.  sent is the trace of HTTP exchanges: who issued the *)
(* request, the operation, the campaign, the payload (for a listing or a   *)
(* download: the response body) and whether the exchange succeeded.        *)

Exchange(by, op, c, payload, ok) ==
    [by |-> by, op |-> op, campaign |-> c, payload |-> payload, ok |-> ok]

\* what requests and raise_for_status raise, by the except clause that
\* catches it: ReadTimeout, ConnectionError, anything else (HTTPError)
TransportErrors == {"ReadTimeout", "ConnectionError", "HTTPError"}

MainRows == {Row(c, q, SamplePrice) :
                c \in CodeCells, q \in {StrCell(<<">", "1", "0">>), StrCell(<<>>)}}

\* a handler that prints the error and lets the loop go on with the batch
CaughtAndRetried(e) ==
    /\ ret' = Raised(e)
    /\ pc' = pc

\* an exception raised inside the try block of main: one of the three except
\* clauses prints it and main returns
Caught(e) ==
    /\ ret' = Raised(e)
    /\ pc' = "done"

\* the loop over list(divide(...)) is entered only when there is a batch
LoopOrNext(q, loop, next) == IF q = <<>> THEN next ELSE loop

InitMain ==
    /\ pc \in {"seller.get_offer_ids", "market.download_stock"}
    /\ campaign = IF pc = "seller.get_offer_ids" THEN "OZON" ELSE "FBS"
    /\ watch_remnants = <<>> /\ offer_ids = <<>> /\ listed = <<>>
    /\ stocks = <<>> /\ prices = <<>> /\ price = NoneCell /\ lst = <<>> /\ n = 1
    /\ ret = Idle /\ queue = <<>> /\ sent = <<>> /\ coroutines = <<>>
    /\ last_id = "" /\ product_list = <<>>

(* seller.main *)

SellerGetOfferIds ==
    /\ pc = "seller.get_offer_ids"
    /\ \/ \E ids \in SeqsUpTo(RemoteIds, MaxIds) :
              /\ offer_ids' = ids
              /\ listed' = ids
              /\ sent' = Append(sent, Exchange("main", "list", campaign, ids, TRUE))
              /\ pc' = "seller.download_stock"
              /\ UNCHANGED ret
       \/ \E e \in TransportErrors :
              /\ sent' = Append(sent, Exchange("main", "list", campaign, <<>>, FALSE))
              /\ Caught(e)
              /\ UNCHANGED <<offer_ids, listed>>
    /\ UNCHANGED <<last_id, product_list, watch_remnants, stocks, prices, price, lst, n, queue, campaign,
                   coroutines>>

SellerDownloadStock ==
    /\ pc = "seller.download_stock"
    /\ \/ \E rows \in SeqsUpTo(MainRows, MaxRows) :
              /\ watch_remnants' = rows
              /\ sent' = Append(sent, Exchange("main", "download", campaign, rows, TRUE))
              /\ pc' = "seller.create_stocks"
              /\ UNCHANGED ret
       \/ \E e \in TransportErrors :
              /\ sent' = Append(sent, Exchange("main", "download", campaign, <<>>, FALSE))
              /\ Caught(e)
              /\ UNCHANGED watch_remnants
    /\ UNCHANGED <<last_id, product_list, offer_ids, listed, stocks, prices, price, lst, n, queue, campaign,
                   coroutines>>

SellerCreateStocks ==
    /\ pc = "seller.create_stocks"
    /\ LET r == seller_create_stocks(watch_remnants, offer_ids)
       IN  /\ offer_ids' = r.offer_ids
           /\ IF r.raised
              THEN Caught(r.value) /\ UNCHANGED <<stocks, queue>>
              ELSE /\ stocks' = r.value
                   /\ queue' = divide(r.value, SellerStockBatch).value
                   /\ pc' = LoopOrNext(queue', "seller.update_stocks", "seller.create_prices")
                   /\ UNCHANGED ret
    /\ UNCHANGED <<last_id, product_list, watch_remnants, listed, prices, price, lst, n, sent, campaign,
                   coroutines>>

SellerUpdateStocks ==
    /\ pc = "seller.update_stocks"
    /\ \/ /\ sent' = Append(sent, Exchange("main", "update_stocks", campaign, Head(queue), TRUE))
          /\ queue' = Tail(queue)
          /\ pc' = LoopOrNext(queue', "seller.update_stocks", "seller.create_prices")
          /\ UNCHANGED ret
       \/ \E e \in TransportErrors :
              /\ sent' = Append(sent, Exchange("main", "update_stocks", campaign, Head(queue), FALSE))
              /\ Caught(e)
              /\ UNCHANGED queue
    /\ UNCHANGED <<last_id, product_list, watch_remnants, offer_ids, listed, stocks, prices, price, lst, n,
                   campaign, coroutines>>

\* create_prices receives the list that create_stocks has mutated
SellerCreatePrices ==
    /\ pc = "seller.create_prices"
    /\ LET r == seller_create_prices(watch_remnants, offer_ids)
       IN  IF r.raised
           THEN Caught(r.value) /\ UNCHANGED <<prices, queue>>
           ELSE /\ prices' = r.value
                /\ queue' = divide(r.value, SellerPriceBatch).value
                /\ pc' = LoopOrNext(queue', "seller.update_price", "done")
                /\ UNCHANGED ret
    /\ UNCHANGED <<last_id, product_list, watch_remnants, offer_ids, listed, stocks, price, lst, n, sent,
                   campaign, coroutines>>

SellerUpdatePrice ==
    /\ pc = "seller.update_price"
    /\ \/ /\ sent' = Append(sent, Exchange("main", "update_price", campaign, Head(queue), TRUE))
          /\ queue' = Tail(queue)
          /\ pc' = LoopOrNext(queue', "seller.update_price", "done")
          /\ UNCHANGED ret
       \/ \E e \in TransportErrors :
              /\ sent' = Append(sent, Exchange("main", "update_price", campaign, Head(queue), FALSE))
              /\ Caught(e)
              /\ UNCHANGED queue
    /\ UNCHANGED <<last_id, product_list, watch_remnants, offer_ids, listed, stocks, prices, price, lst, n,
                   campaign, coroutines>>

(* market.main.  The file as it stands does not compile (the body of      *)
(* get_product_list is dedented at line 31); main is modelled as written.  *)

\* warehouse_fbs_id and warehouse_dbs_id
WarehouseOf(c) == IF c = "FBS" THEN "wFBS" ELSE "wDBS"

\* calling the async function upload_prices builds a coroutine object; its
\* body (get_offer_ids, create_prices, update_price) runs only when the
\* object is awaited
upload_prices_call(rows, c) == [fn |-> "upload_prices", campaign |-> c, awaited |-> FALSE]

\* download_stock is called before the try block: its exception is not
\* caught and ends the process
MarketDownloadStock ==
    /\ pc = "market.download_stock"
    /\ \/ \E rows \in SeqsUpTo(MainRows, MarketMaxRows) :
              /\ watch_remnants' = rows
              /\ sent' = Append(sent, Exchange("main", "download", campaign, rows, TRUE))
              /\ pc' = "market.get_offer_ids"
              /\ UNCHANGED ret
       \/ \E e \in TransportErrors :
              /\ sent' = Append(sent, Exchange("main", "download", campaign, <<>>, FALSE))
              /\ ret' = Raised(e)
              /\ pc' = "crashed"
              /\ UNCHANGED watch_remnants
    /\ UNCHANGED <<last_id, product_list, offer_ids, listed, stocks, prices, price, lst, n, queue, campaign,
                   coroutines>>

MarketGetOfferIds ==
    /\ pc = "market.get_offer_ids"
    /\ \/ \E ids \in SeqsUpTo(RemoteIds, MarketMaxIds) :
              /\ offer_ids' = ids
              /\ listed' = ids
              /\ sent' = Append(sent, Exchange("main", "list", campaign, ids, TRUE))
              /\ pc' = "market.create_stocks"
              /\ UNCHANGED ret
       \/ \E e \in TransportErrors :
              /\ sent' = Append(sent, Exchange("main", "list", campaign, <<>>, FALSE))
              /\ Caught(e)
              /\ UNCHANGED <<offer_ids, listed>>
    /\ UNCHANGED <<last_id, product_list, watch_remnants, stocks, prices, price, lst, n, queue, campaign,
                   coroutines>>

MarketCreateStocks ==
    /\ pc = "market.create_stocks"
    /\ \E d \in Dates :
         LET r == market_create_stocks(watch_remnants, offer_ids, WarehouseOf(campaign), d)
         IN  /\ offer_ids' = r.offer_ids
             /\ IF r.raised
                THEN Caught(r.value) /\ UNCHANGED <<stocks, queue>>
                ELSE /\ stocks' = r.value
                     /\ queue' = divide(r.value, MarketStockBatch).value
                     /\ pc' = LoopOrNext(queue', "market.update_stocks", "market.upload_prices")
                     /\ UNCHANGED ret
    /\ UNCHANGED <<last_id, product_list, watch_remnants, listed, prices, price, lst, n, sent, campaign,
                   coroutines>>

MarketUpdateStocks ==
    /\ pc = "market.update_stocks"
    /\ \/ /\ sent' = Append(sent, Exchange("main", "update_stocks", campaign, Head(queue), TRUE))
          /\ queue' = Tail(queue)
          /\ pc' = LoopOrNext(queue', "market.update_stocks", "market.upload_prices")
          /\ UNCHANGED ret
       \/ \E e \in TransportErrors :
              /\ sent' = Append(sent, Exchange("main", "update_stocks", campaign, Head(queue), FALSE))
              /\ Caught(e)
              /\ UNCHANGED queue
    /\ UNCHANGED <<last_id, product_list, watch_remnants, offer_ids, listed, stocks, prices, price, lst, n,
                   campaign, coroutines>>

\* upload_prices(watch_remnants, campaign_id, market_token) without await:
\* the coroutine object is dropped, main goes on with DBS or returns
MarketUploadPrices ==
    /\ pc = "market.upload_prices"
    /\ coroutines' = Append(coroutines, upload_prices_call(watch_remnants, campaign))
    /\ IF campaign = "FBS"
       THEN campaign' = "DBS" /\ pc' = "market.get_offer_ids"
       ELSE campaign' = campaign /\ pc' = "done"
    /\ UNCHANGED <<last_id, product_list, watch_remnants, offer_ids, listed, stocks, prices, price, lst, n,
                   ret, queue, sent>>

Next ==
    \/ SellerGetOfferIds
    \/ SellerDownloadStock
    \/ SellerCreateStocks
    \/ SellerUpdateStocks
    \/ SellerCreatePrices
    \/ SellerUpdatePrice
    \/ MarketDownloadStock
    \/ MarketGetOfferIds
    \/ MarketCreateStocks
    \/ MarketUpdateStocks
    \/ MarketUploadPrices

Spec == InitMain /\ [][Next]_vars

---------------------------------------------------------------------------
(* Claims about the orchestrators (checked under Spec).                    *)

Calls(op, c) == SelectSeq(sent, LAMBDA x : x.op = op /\ x.campaign = c)
Payloads(calls) == [k \in 1..Len(calls) |-> calls[k].payload]
Submitted(op, c) ==
    Concat(Payloads(SelectSeq(sent, LAMBDA x : x.op = op /\ x.campaign = c /\ x.ok)))

ReturnedNormally == pc = "done" /\ ~ret.raised

\* C2 as stated: in seller.main the price records submitted in the run are
\* one for each local row whose code is among the remote offer ids listed at
\* the start of the run, and none for any other row.
C2_Original ==
    (ReturnedNormally /\ campaign = "OZON") =>
        LET M == {r \in 1..Len(watch_remnants) : IsIn(Key(watch_remnants[r]), listed)}
            P == Submitted("update_price", "OZON")
        IN  /\ Len(P) = Cardinality(M)
            /\ \A k \in 1..Len(P) : P[k].offer_id = Key(watch_remnants[NthOf(M, k)])

\* C3 as stated: in market.main the call of upload_prices for FBS has
\* listed the offers (and submitted the FBS price batches) before the DBS
\* listing request is issued, and the call for DBS has done so before main
\* returns.
C3_Original ==
    /\ \A k \in 1..Len(sent) :
           (sent[k].op = "list" /\ sent[k].campaign = "DBS") =>
               \E i \in 1..(k - 1) : /\ sent[i].by = "upload_prices"
                                     /\ sent[i].op = "list"
                                     /\ sent[i].campaign = "FBS"
    /\ (ReturnedNormally /\ campaign = "DBS") =>
           \E i \in 1..Len(sent) : /\ sent[i].by = "upload_prices"
                                   /\ sent[i].op = "list"
                                   /\ sent[i].campaign = "DBS"

\* the k-th chunk of a list cut into chunks of size b
ChunkOf(l, b, k) == SubSeq(l, (k - 1) * b + 1, Min(k * b, Len(l)))

\* the update calls made are the first chunks of the list, in order
PrefixOfChunks(calls, l, b) ==
    \A k \in 1..Len(calls) : calls[k].payload # <<>> /\ calls[k].payload = ChunkOf(l, b, k)

StockBatchOf(c) == IF c = "OZON" THEN SellerStockBatch ELSE MarketStockBatch

\* the stock loop of the current campaign has ended without an exception
StockLoopDone ==
    \/ pc \in {"seller.create_prices", "seller.update_price", "market.upload_prices"}
    \/ pc = "market.get_offer_ids" /\ campaign = "DBS"
    \/ ReturnedNormally

\* C10: the update calls made for a reconciled list are a prefix of its
\* chunks in batcher order, each chunk at most once; when all calls succeed
\* the submitted payloads concatenate to the list; a failed call is the last
\* request of the run, so the batches before it were submitted, those after
\* it never are, and no later step (prices, next channel) issues a request.
C10_PrefixOfBatchesNoRetry ==
    /\ PrefixOfChunks(Calls("update_stocks", campaign), stocks, StockBatchOf(campaign))
    /\ PrefixOfChunks(Calls("update_price", campaign), prices, SellerPriceBatch)
    /\ \A k \in 1..Len(sent) :
           ~sent[k].ok => (k = Len(sent) /\ ret.raised /\ pc \in {"done", "crashed"})
    /\ StockLoopDone =>
           Submitted("update_stocks", IF pc = "market.get_offer_ids" THEN "FBS" ELSE campaign)
               = stocks
    /\ (ReturnedNormally /\ campaign = "OZON") => Submitted("update_price", "OZON") = prices
    /\ \A i, j \in 1..Len(sent) :
           i < j => /\ ~(sent[i].op = "update_price" /\ sent[j].op = "update_stocks")
                    /\ ~(sent[i].campaign = "DBS" /\ sent[j].campaign = "FBS")

\* batch 2 of 3 failed: batch 1 was submitted, batch 3 never is
C10_Witness ==
    /\ pc = "done" /\ ret.raised
    /\ Len(Calls("update_stocks", campaign)) = 2
    /\ Calls("update_stocks", campaign)[1].ok
    /\ ~Calls("update_stocks", campaign)[2].ok
    /\ Len(queue) = 2
    /\ Len(stocks) = 3 * StockBatchOf(campaign)

---------------------------------------------------------------------------
(* The Ozon lister: seller.get_offer_ids over seller.get_product_list.     *)

\* one page request: the last_id sent, and the "result" of the response
\* (nothing when the request failed)
PageExchange(token, result, ok) ==
    [by |-> "get_offer_ids", op |-> "list", campaign |-> "OZON",
     last_id |-> token, payload |-> result, ok |-> ok]

Product(id) == [offer_id |-> id]

\* the pages a response may carry: empty, one item, the same offer twice
ItemPages == {<<>>, <<Product(<<"A">>)>>, <<Product(<<"B">>)>>,
              <<Product(<<"A">>), Product(<<"A">>)>>}

\* the opaque last_id values of the responses
Tokens == {"t1", "t2"}

\* a loop that stops as soon as the total is reached or passed
listing_complete_at_least(total, items) == total <= Len(items)

\* if total == len(product_list): break
listing_complete(total, items) == total = Len(items)

InitLister ==
    /\ pc = "seller.get_product_list"
    /\ last_id = "" /\ product_list = <<>>
    /\ campaign = "OZON"
    /\ watch_remnants = <<>> /\ offer_ids = <<>> /\ listed = <<>>
    /\ stocks = <<>> /\ prices = <<>> /\ price = NoneCell /\ lst = <<>> /\ n = 1
    /\ ret = Idle /\ queue = <<>> /\ sent = <<>> /\ coroutines = <<>>

\* one pass of the while loop of get_offer_ids: the request of
\* get_product_list, and on success the extend, the new last_id and the
\* test of the total; the loop's end builds and returns offer_ids
ListerGetProductList ==
    /\ pc = "seller.get_product_list"
    /\ Len(sent) < MaxRequests
    /\ \/ \E items \in ItemPages, total \in 0..MaxTotal, next \in Tokens :
              /\ sent' = Append(sent, PageExchange(last_id,
                                    [items |-> items, total |-> total, last_id |-> next], TRUE))
              /\ product_list' = product_list \o items
              /\ last_id' = next
              /\ IF listing_complete(total, product_list')
                 THEN /\ offer_ids' = [k \in 1..Len(product_list') |-> product_list'[k].offer_id]
                      /\ ret' = Ok(offer_ids')
                      /\ pc' = "returned"
                 ELSE UNCHANGED <<offer_ids, ret, pc>>
       \/ \E e \in TransportErrors :
              /\ sent' = Append(sent, PageExchange(last_id, <<>>, FALSE))
              /\ ret' = Raised(e)
              /\ pc' = "raised"
              /\ UNCHANGED <<offer_ids, product_list, last_id>>
    /\ UNCHANGED <<watch_remnants, listed, stocks, prices, price, lst, n, queue,
                   campaign, coroutines>>

NextLister == ListerGetProductList

SpecLister == InitLister /\ [][NextLister]_vars

---------------------------------------------------------------------------
(* Claims about the lister (checked under SpecLister).                     *)

\* the items of the first k responses, in received order
ReceivedUpTo(k) == Concat([j \in 1..k |-> sent[j].payload.items])

\* C11: the first request carries an empty token and every later one the
\* last_id of the previous response; the lister stops exactly when, after a
\* response's items are appended, the accumulated count equals that
\* response's total; it then issues no further request and returns the offer
\* ids of all accumulated items in received order, duplicates kept.  A
\* failed page request aborts the listing: no result, no retry.
C11_CursorListing ==
    /\ \A k \in 1..Len(sent) :
           /\ sent[k].last_id = IF k = 1 THEN "" ELSE sent[k - 1].payload.last_id
           /\ k < Len(sent) =>
                  (sent[k].ok /\ Len(ReceivedUpTo(k)) # sent[k].payload.total)
    /\ (sent # <<>> /\ sent[Len(sent)].ok) =>
           /\ product_list = ReceivedUpTo(Len(sent))
           /\ (pc = "returned") <=>
                  (Len(ReceivedUpTo(Len(sent))) = sent[Len(sent)].payload.total)
           /\ pc \in {"returned", "seller.get_product_list"}
    /\ pc = "returned" =>
           /\ sent # <<>> /\ sent[Len(sent)].ok
           /\ ret = Ok(offer_ids)
           /\ Len(offer_ids) = Len(ReceivedUpTo(Len(sent)))
           /\ \A i \in 1..Len(offer_ids) :
                  offer_ids[i] = ReceivedUpTo(Len(sent))[i].offer_id
    /\ (sent # <<>> /\ ~sent[Len(sent)].ok) =>
           (pc = "raised" /\ ret.raised /\ offer_ids = <<>>)
    /\ pc = "raised" => (sent # <<>> /\ ~sent[Len(sent)].ok)

\* three pages; the second and third request carry the last_id of the
\* response before; the same offer id is returned twice
C11_Witness ==
    /\ pc = "returned"
    /\ Len(sent) = 3
    /\ sent[1].payload.last_id # sent[2].payload.last_id
    /\ sent[1].payload.items # <<>>
    /\ sent[1].payload.total = 1
    /\ Len(offer_ids) = 2
    /\ offer_ids[1] = offer_ids[2]

---------------------------------------------------------------------------
(* Claim about a quantity that cannot be parsed (checked under Spec).      *)

\* an indicator that is none of ">10", "1" or an integer
BadIndicator(cell) ==
    \/ cell.k = "none"
    \/ /\ cell.k = "str"
       /\ cell.s # <<">", "1", "0">>
       /\ cell.s # <<"1">>
       /\ (cell.s = <<>> \/ \E j \in 1..Len(cell.s) : cell.s[j] \notin AsciiDigits)

\* create_stocks has been called with the list in listed
Reconciled ==
    /\ pc \notin {"seller.get_offer_ids", "seller.download_stock", "seller.create_stocks",
                  "market.download_stock", "market.create_stocks", "crashed"}
    /\ ~(pc = "market.get_offer_ids" /\ campaign = "FBS")

\* an exception of the reconciliation itself was caught by main
ReconciliationRaised ==
    pc = "done" /\ ret.raised /\ ret.value \in {"ValueError", "TypeError"}

NoUpdateOf(c) == Calls("update_stocks", c) = <<>> /\ Calls("update_price", c) = <<>>

\* the row's code is still in the collection when the loop reaches the row
InCollectionWhenProcessed(r) ==
    Cardinality(EarlierSameCode(r)) < Count(listed, Key(watch_remnants[r]))

\* listed without, for every code, its first occurrences matched by the
\* rows before row f
LeftBefore(f) ==
    LET taken(j) == Cardinality({i \in 1..(j - 1) : listed[i] = listed[j]})
        rowsOf(x) == Cardinality({q \in 1..(f - 1) : Key(watch_remnants[q]) = x})
        keep == {j \in 1..Len(listed) : taken(j) >= rowsOf(listed[j])}
    IN  [k \in 1..Cardinality(keep) |-> listed[NthOf(keep, k)]]

\* C12 as stated: when any local row whose code is a remote offer id has an
\* indicator that is none of ">10", "1" or an integer, create_stocks raises,
\* main catches it and the run submits no stock batch and no price batch at
\* all.
C12_Original ==
    (Reconciled /\ \E r \in 1..Len(watch_remnants) :
                      /\ IsIn(Key(watch_remnants[r]), listed)
                      /\ BadIndicator(watch_remnants[r].qty))
        => /\ ReconciliationRaised
           /\ \A k \in 1..Len(sent) : sent[k].op \notin {"update_stocks", "update_price"}

\* C12 as amended: the reconciliation is complete before the first stock
\* batch of its list is submitted; when a local row whose code is still in
\* the offer-id list when the row is processed (not used up by earlier rows
\* of the same code) has such an indicator, create_stocks raises, main
\* catches it and returns, no stock or price batch of that listing is
\* submitted and no request follows (in market.main the FBS batches stay
\* submitted when the DBS reconciliation raises); offer_ids is left without
\* the ids matched before the failing row.  Without such a row create_stocks
\* does not raise.
C12_UnparsableQuantityAborts ==
    LET F == {r \in 1..Len(watch_remnants) :
                 BadIndicator(watch_remnants[r].qty) /\ InCollectionWhenProcessed(r)}
    IN  /\ pc \in {"seller.create_stocks", "market.create_stocks"} => NoUpdateOf(campaign)
        /\ (Reconciled /\ F # {}) =>
               /\ ReconciliationRaised
               /\ NoUpdateOf(campaign)
               /\ sent[Len(sent)].op \in {"list", "download"}
               /\ sent[Len(sent)].campaign = campaign
               /\ offer_ids = LeftBefore(NthOf(F, 1))
        /\ (Reconciled /\ F = {}) => ~ReconciliationRaised

\* the second row fails after the first was matched: its id is gone from
\* offer_ids, nothing was submitted
C12_Witness ==
    /\ ReconciliationRaised
    /\ Len(watch_remnants) = 2
    /\ ~BadIndicator(watch_remnants[1].qty)
    /\ BadIndicator(watch_remnants[2].qty)
    /\ Len(listed) = 3
    /\ Len(offer_ids) = 2
    /\ ~IsIn(Key(watch_remnants[1]), offer_ids)
    /\ IsIn(Key(watch_remnants[2]), offer_ids)
    /\ NoUpdateOf(campaign)

=============================================================================
